---- MODULE Spec2Model ----
(***************************************************************************)
(* Model of analyze_benchmarks.py: the loader, the console reporter, the   *)
(* CSV exporter, the chart renderer and the driver (main).                 *)
(*                                                                         *)
(* A benchmark record (a parsed JSON object) is a function from its keys   *)
(* to its values; a key the object lacks is outside its DOMAIN, and a      *)
(* lookup of it is Python's KeyError.  Python floats are modelled as exact *)
(* rationals <<numerator, denominator>> in lowest terms.                   *)
(* A run either is the script (entry = "main") or is a direct call of one  *)
(* of the module's functions (the __main__ guard makes it importable).     *)
(***************************************************************************)
EXTENDS Integers, Sequences, FiniteSets, TLC

VARIABLES
    entry,        \* which function this run was started at
    pc,           \* position in the code
    dirExists,    \* os.path.exists(results_dir)
    summary,      \* benchmark_summary.json: <<"absent">>, <<"malformed">> or <<"ok", list>>
    perRun,       \* benchmark_N*.json files: name -> <<"absent">> | <<"malformed">> | <<"ok", record>>
    matplotlib,   \* whether "import matplotlib" succeeds
    data,         \* the loaded list (main's local; the functions' argument)
    results,      \* load_benchmark_data's local list
    todo,         \* load_benchmark_data's remaining sorted glob matches
    handles,      \* file objects currently open
    filesRead,    \* files opened for reading, in order
    report,       \* console sections printed so far, in order
    tableRows,    \* rows of the detailed table printed so far
    printed,      \* values shown in the report: section -> value
    csvExists,    \* detailed_analysis.csv exists
    csvHeader,    \* header rows in the CSV file
    csvRows,      \* data rows in the CSV file
    pngWritten,   \* benchmark_plots.png was saved
    fault,        \* the uncaught exception, "none" if none
    exitCode      \* <<>> while running, <<status>> once the process ended

vars == <<entry, pc, dirExists, summary, perRun, matplotlib, data, results, todo,
          handles, filesRead, report, tableRows, printed, csvExists, csvHeader,
          csvRows, pngWritten, fault, exitCode>>

----------------------------------------------------------------------------
(* Bounds of the model *)

MaxRecords == 2

----------------------------------------------------------------------------
(* Rational arithmetic standing for Python's float results *)

RECURSIVE GCD(_, _)
GCD(a, b) == IF b = 0 THEN a ELSE GCD(b, a % b)

Abs(x) == IF x < 0 THEN -x ELSE x

\* n / d for d # 0, in lowest terms with a positive denominator
Rat(n, d) ==
    LET g == GCD(Abs(n), Abs(d))
        s == IF d < 0 THEN -1 ELSE 1
    IN  <<(s * n) \div g, (s * d) \div g>>

RatAdd(a, b) == Rat(a[1] * b[2] + b[1] * a[2], a[2] * b[2])

RatDivInt(a, k) == Rat(a[1], a[2] * k)

RatMulInt(a, k) == Rat(a[1] * k, a[2])

RatGreaterThanOne(a) == a[1] > a[2]

RatPositive(a) == a[1] > 0

RatEq(a, b) == a[1] * b[2] = b[1] * a[2]

\* the value formatted with two decimals (":.2f"), in hundredths
Round2(a) == (2 * 100 * a[1] + a[2]) \div (2 * a[2])

----------------------------------------------------------------------------
(* Records *)

Has(item, k) == k \in DOMAIN item

Drop(item, k) == [f \in (DOMAIN item) \ {k} |-> item[f]]

RecN1 ==
    [participant_count |-> 1, user_cycles |-> 1000, total_cycles |-> 1024,
     session_segments |-> 1, proving_time_ms |-> 500, total_time_ms |-> 600,
     receipt_size_bytes |-> 2048, journal_size_bytes |-> 512, timestamp |-> "t1"]

RecN10 ==
    [participant_count |-> 10, user_cycles |-> 9500, total_cycles |-> 16384,
     session_segments |-> 4, proving_time_ms |-> 4500, total_time_ms |-> 5000,
     receipt_size_bytes |-> 2048, journal_size_bytes |-> 4096, timestamp |-> "t2"]

\* a record and its edge cases: zero counts, and objects lacking a key
Variants(r) ==
    { r,
      [r EXCEPT !.user_cycles = 0],
      [r EXCEPT !.session_segments = 0],
      [r EXCEPT !.total_time_ms = 0, !.proving_time_ms = 0],
      Drop(r, "timestamp"),
      Drop(r, "receipt_size_bytes") }

Pool == Variants(RecN1) \cup Variants(RecN10)

DataSets == UNION { [1..n -> Pool] : n \in 0..MaxRecords }

----------------------------------------------------------------------------
(* Sorting *)

KeyN(item) == item["participant_count"]

\* variant: a record whose key is already present is dropped
RECURSIVE InsertByN_DropEqual(_, _)
InsertByN_DropEqual(s, x) ==
    IF s = <<>> THEN <<x>>
    ELSE IF KeyN(x) < KeyN(Head(s)) THEN <<x>> \o s
    ELSE IF KeyN(x) = KeyN(Head(s)) THEN s
    ELSE <<Head(s)>> \o InsertByN_DropEqual(Tail(s), x)

\* x placed after every element whose key is not greater: the sort is stable
RECURSIVE InsertByN(_, _)
InsertByN(s, x) ==
    IF s = <<>> THEN <<x>>
    ELSE IF KeyN(x) < KeyN(Head(s)) THEN <<x>> \o s
    ELSE <<Head(s)>> \o InsertByN(Tail(s), x)

RECURSIVE SortedByN(_)
SortedByN(d) ==
    IF d = <<>> THEN <<>>
    ELSE InsertByN(SortedByN(SubSeq(d, 1, Len(d) - 1)), d[Len(d)])

\* variant: data.sort(key=...), which reorders the list it is given
sorted_InPlace(d) == [ret |-> SortedByN(d), arg |-> SortedByN(d)]

\* Python's sorted(data, key=...): a new list is returned, the argument is left as it was
sorted(d) == [ret |-> SortedByN(d), arg |-> d]

\* min(data, key=...) and max(data, key=...): the first of the extreme elements
MinByN(d) ==
    d[CHOOSE i \in 1..Len(d) :
        /\ \A j \in 1..Len(d) : KeyN(d[i]) <= KeyN(d[j])
        /\ \A j \in 1..(i - 1) : KeyN(d[j]) > KeyN(d[i])]

MaxByN(d) ==
    d[CHOOSE i \in 1..Len(d) :
        /\ \A j \in 1..Len(d) : KeyN(d[i]) >= KeyN(d[j])
        /\ \A j \in 1..(i - 1) : KeyN(d[j]) < KeyN(d[i])]

AllHave(d, k) == \A i \in 1..Len(d) : Has(d[i], k)

----------------------------------------------------------------------------
(* File names: the part of benchmark_N*.json the star matches, as character *)
(* codes; the next character of the name is the "." of ".json".             *)

PerRunNames == { <<49>>, <<49, 48>>, <<50>> }

FullName(n) == n \o <<46>>

RECURSIVE LexLess(_, _)
LexLess(a, b) ==
    IF b = <<>> THEN FALSE
    ELSE IF a = <<>> THEN TRUE
    ELSE IF Head(a) # Head(b) THEN Head(a) < Head(b)
    ELSE LexLess(Tail(a), Tail(b))

RECURSIVE SortNames(_)
SortNames(S) ==
    IF S = {} THEN <<>>
    ELSE LET m == CHOOSE x \in S : \A y \in S \ {x} : LexLess(FullName(x), FullName(y))
         IN  <<m>> \o SortNames(S \ {m})

RECURSIVE Reverse(_)
Reverse(q) == IF q = <<>> THEN <<>> ELSE Reverse(Tail(q)) \o <<Head(q)>>

\* variant: the matches in an order other than the sorted one
Glob_DirectoryOrder(files) ==
    Reverse(SortNames({ n \in DOMAIN files : files[n][1] # "absent" }))

\* sorted(Path(results_dir).glob("benchmark_N*.json"))
Glob(files) == SortNames({ n \in DOMAIN files : files[n][1] # "absent" })

SummaryFile == [kind |-> "summary", name |-> <<>>]
RunFile(n) == [kind |-> "run", name |-> n]
CsvFile == [kind |-> "csv", name |-> <<>>]

\* variant: open() and close() without a with block, the close skipped by an exception
WithExit_LeakOnRaise(hs, h, raised) == IF raised THEN hs ELSE hs \ {h}

\* leaving a "with open(...)" block, by return or by exception, closes the file
WithExit(hs, h, raised) == hs \ {h}

----------------------------------------------------------------------------
(* Calls, returns and uncaught exceptions *)

\* a function returns to main's next statement, or to its direct caller
PcAfterReturn(next) == IF entry = "main" THEN next ELSE "returned"

\* variant: the exception is swallowed and the script runs on to its end
PcAfterRaise_Swallow == IF entry = "main" THEN "main_done" ELSE "raised"

\* an exception nobody catches ends the script with a traceback and status 1
PcAfterRaise == IF entry = "main" THEN "exited" ELSE "raised"

ExitAfterRaise == IF entry = "main" THEN <<1>> ELSE exitCode

Environment == <<entry, dirExists, summary, perRun, matplotlib>>

----------------------------------------------------------------------------
(* The initial states: the environment of a run *)

NoFiles == [n \in PerRunNames |-> <<"absent">>]

FileContents == { <<"absent">>, <<"malformed">> } \cup { <<"ok", r>> : r \in Pool }

\* directories holding a summary file, alone or beside per-run files
SummaryDirs ==
    { <<s, f>> : s \in { <<"malformed">> } \cup { <<"ok", d>> : d \in DataSets },
                 f \in { NoFiles, [n \in PerRunNames |-> <<"ok", RecN10>>] } }

\* directories without a summary file
PerRunDirs == { <<(<<"absent">>), f>> : f \in [PerRunNames -> FileContents] }

Fresh ==
    /\ results = <<>>
    /\ todo = <<>>
    /\ handles = {}
    /\ filesRead = <<>>
    /\ report = <<>>
    /\ tableRows = <<>>
    /\ printed = [range |-> <<>>, scaling |-> <<>>, efficiency |-> <<>>]
    /\ csvExists = FALSE
    /\ csvHeader = 0
    /\ csvRows = <<>>
    /\ pngWritten = FALSE
    /\ fault = "none"
    /\ exitCode = <<>>

Init ==
    /\ Fresh
    /\ \/ \* the script, or the loader alone, on a directory
          /\ entry \in {"main", "load_benchmark_data"}
          /\ pc = IF entry = "main" THEN "main" ELSE "load"
          /\ data = <<>>
          /\ \/ /\ dirExists = TRUE
                /\ \E dir \in SummaryDirs \cup PerRunDirs :
                      /\ summary = dir[1]
                      /\ perRun = dir[2]
             \/ /\ dirExists = FALSE
                /\ summary = <<"absent">>
                /\ perRun = NoFiles
          /\ matplotlib \in (IF entry = "main" THEN BOOLEAN ELSE {FALSE})
       \/ \* one of the reporting functions called on a list
          /\ entry \in {"print_statistics", "generate_csv_report", "generate_plot"}
          /\ pc = (CASE entry = "print_statistics" -> "stats"
                     [] entry = "generate_csv_report" -> "csv"
                     [] entry = "generate_plot" -> "plot")
          /\ data \in DataSets
          /\ dirExists = TRUE
          /\ summary = <<"absent">>
          /\ perRun = NoFiles
          /\ matplotlib \in (IF entry = "generate_plot" THEN BOOLEAN ELSE {FALSE})

----------------------------------------------------------------------------
(* main, first part *)

\* the results directory is looked up; a missing one ends the run with the usage line
MainCheckDir ==
    /\ pc = "main"
    /\ IF ~dirExists
       THEN /\ report' = report \o <<"err_dir_not_found", "usage">>
            /\ exitCode' = <<1>>
            /\ pc' = "exited"
       ELSE /\ report' = report \o <<"loading">>
            /\ pc' = "load"
            /\ UNCHANGED exitCode
    /\ UNCHANGED <<Environment, data, results, todo, handles, filesRead, tableRows,
                   printed, csvExists, csvHeader, csvRows, pngWritten, fault>>

----------------------------------------------------------------------------
(* load_benchmark_data *)

\* the summary file is opened if it exists; otherwise the per-run files are listed
LoadBegin ==
    /\ pc = "load"
    /\ IF summary[1] # "absent"
       THEN /\ handles' = handles \cup {SummaryFile}
            /\ filesRead' = Append(filesRead, SummaryFile)
            /\ pc' = "load_summary"
            /\ UNCHANGED <<results, todo>>
       ELSE /\ results' = <<>>
            /\ todo' = Glob(perRun)
            /\ pc' = "load_loop"
            /\ UNCHANGED <<handles, filesRead>>
    /\ UNCHANGED <<Environment, data, report, tableRows, printed, csvExists, csvHeader,
                   csvRows, pngWritten, fault, exitCode>>

\* json.load of the summary file inside its with block
LoadSummary ==
    /\ pc = "load_summary"
    /\ LET raised == summary[1] = "malformed" IN
       /\ handles' = WithExit(handles, SummaryFile, raised)
       /\ IF raised
          THEN /\ fault' = "JSONDecodeError"
               /\ pc' = PcAfterRaise
               /\ exitCode' = ExitAfterRaise
               /\ UNCHANGED data
          ELSE /\ data' = summary[2]
               /\ pc' = PcAfterReturn("main_check_data")
               /\ UNCHANGED <<fault, exitCode>>
    /\ UNCHANGED <<Environment, results, todo, filesRead, report, tableRows, printed,
                   csvExists, csvHeader, csvRows, pngWritten>>

\* the loop over the sorted matches: the next file is opened, or the list is returned
LoadNext ==
    /\ pc = "load_loop"
    /\ IF todo = <<>>
       THEN /\ data' = results
            /\ pc' = PcAfterReturn("main_check_data")
            /\ UNCHANGED <<handles, filesRead>>
       ELSE /\ handles' = handles \cup {RunFile(Head(todo))}
            /\ filesRead' = Append(filesRead, RunFile(Head(todo)))
            /\ pc' = "load_file"
            /\ UNCHANGED data
    /\ UNCHANGED <<Environment, results, todo, report, tableRows, printed, csvExists,
                   csvHeader, csvRows, pngWritten, fault, exitCode>>

\* json.load of one per-run file inside its with block, appended to the results
LoadFile ==
    /\ pc = "load_file"
    /\ LET name == Head(todo)
           raised == perRun[name][1] = "malformed"
       IN
       /\ handles' = WithExit(handles, RunFile(name), raised)
       /\ IF raised
          THEN /\ fault' = "JSONDecodeError"
               /\ pc' = PcAfterRaise
               /\ exitCode' = ExitAfterRaise
               /\ UNCHANGED <<results, todo>>
          ELSE /\ results' = Append(results, perRun[name][2])
               /\ todo' = Tail(todo)
               /\ pc' = "load_loop"
               /\ UNCHANGED <<fault, exitCode>>
    /\ UNCHANGED <<Environment, data, filesRead, report, tableRows, printed, csvExists,
                   csvHeader, csvRows, pngWritten>>

----------------------------------------------------------------------------
(* main, after the load *)

\* variant: the empty result is not checked
MainCheckData_NoExit ==
    /\ pc = "main_check_data"
    /\ report' = report \o <<"loaded">>
    /\ pc' = "stats"
    /\ UNCHANGED <<Environment, data, results, todo, handles, filesRead, tableRows,
                   printed, csvExists, csvHeader, csvRows, pngWritten, fault, exitCode>>

\* an empty result ends the run; otherwise the count is printed and the report starts
MainCheckData ==
    /\ pc = "main_check_data"
    /\ IF data = <<>>
       THEN /\ report' = report \o <<"err_no_data">>
            /\ exitCode' = <<1>>
            /\ pc' = "exited"
       ELSE /\ report' = report \o <<"loaded">>
            /\ pc' = "stats"
            /\ UNCHANGED exitCode
    /\ UNCHANGED <<Environment, data, results, todo, handles, filesRead, tableRows,
                   printed, csvExists, csvHeader, csvRows, pngWritten, fault>>

----------------------------------------------------------------------------
(* print_statistics *)

FirstFault(fs) ==
    IF \E i \in 1..Len(fs) : fs[i] # "none"
    THEN fs[CHOOSE i \in 1..Len(fs) : fs[i] # "none" /\ \A j \in 1..(i - 1) : fs[j] = "none"]
    ELSE "none"

\* the fault of evaluating a[num] / b[den]
DivFault(a, num, b, den) ==
    IF ~Has(a, num) \/ ~Has(b, den) THEN "KeyError"
    ELSE IF b[den] = 0 THEN "ZeroDivisionError"
    ELSE "none"

\* the fault of evaluating d[num] / d[den] for every d of the list, in order
EachDivFault(d, num, den) ==
    FirstFault([i \in 1..Len(d) |-> DivFault(d[i], num, d[i], den)])

\* the sum of the first i values of q
RECURSIVE SumRat(_, _)
SumRat(q, i) == IF i = 0 THEN Rat(0, 1) ELSE RatAdd(SumRat(q, i - 1), q[i])

\* sum(q) / len(q)
Mean(q) == RatDivInt(SumRat(q, Len(q)), Len(q))

TableKeys ==
    <<"participant_count", "user_cycles", "total_cycles", "session_segments",
      "proving_time_ms", "total_time_ms", "receipt_size_bytes", "journal_size_bytes">>

RowFault(item, keys) ==
    IF \E i \in 1..Len(keys) : ~Has(item, keys[i]) THEN "KeyError" ELSE "none"

\* one line of the detailed table: the sizes are shown in KiB
TableRow(item) ==
    [n |-> item["participant_count"],
     user_cycles |-> item["user_cycles"],
     total_cycles |-> item["total_cycles"],
     segments |-> item["session_segments"],
     proving_ms |-> item["proving_time_ms"],
     total_ms |-> item["total_time_ms"],
     receipt_kb |-> Rat(item["receipt_size_bytes"], 1024),
     journal_kb |-> Rat(item["journal_size_bytes"], 1024)]

\* the rows printed before the loop ends or a row's lookup fails
RECURSIVE TableLoop(_)
TableLoop(s) ==
    IF s = <<>> \/ RowFault(Head(s), TableKeys) # "none" THEN <<>>
    ELSE <<TableRow(Head(s))>> \o TableLoop(Tail(s))

TableFault(s) == FirstFault([i \in 1..Len(s) |-> RowFault(s[i], TableKeys)])

\* the empty-list guard, the banner, the run count and the participant range
StatsBegin ==
    /\ pc = "stats"
    /\ IF data = <<>>
       THEN /\ report' = report \o <<"no_data_to_analyze">>
            /\ pc' = PcAfterReturn("csv")
            /\ UNCHANGED <<printed, fault, exitCode>>
       ELSE IF ~AllHave(data, "participant_count")
       THEN /\ report' = report \o <<"banner", "run_count">>
            /\ fault' = "KeyError"
            /\ pc' = PcAfterRaise
            /\ exitCode' = ExitAfterRaise
            /\ UNCHANGED printed
       ELSE /\ report' = report \o <<"banner", "run_count", "participant_range", "table_header">>
            /\ printed' = [printed EXCEPT !.range =
                              <<KeyN(MinByN(data)), KeyN(MaxByN(data))>>]
            /\ pc' = "stats_table"
            /\ UNCHANGED <<fault, exitCode>>
    /\ UNCHANGED <<Environment, data, results, todo, handles, filesRead, tableRows,
                   csvExists, csvHeader, csvRows, pngWritten>>

\* the detailed table: one line per record of the sorted list
StatsTable ==
    /\ pc = "stats_table"
    /\ LET s == sorted(data)
           f == TableFault(s.ret)
       IN
       /\ data' = s.arg
       /\ tableRows' = tableRows \o TableLoop(s.ret)
       /\ IF f # "none"
          THEN /\ fault' = f
               /\ pc' = PcAfterRaise
               /\ exitCode' = ExitAfterRaise
               /\ UNCHANGED report
          ELSE /\ report' = report \o <<"table_footer">>
               /\ pc' = "stats_scaling"
               /\ UNCHANGED <<fault, exitCode>>
    /\ UNCHANGED <<Environment, results, todo, handles, filesRead, printed, csvExists,
                   csvHeader, csvRows, pngWritten>>

ScalingKeys ==
    <<"participant_count", "user_cycles", "total_cycles", "session_segments", "total_time_ms">>

\* the fault of the five ratios last[k] / first[k], evaluated in order
ScalingFault(first, last) ==
    FirstFault([i \in 1..Len(ScalingKeys) |->
                   DivFault(last, ScalingKeys[i], first, ScalingKeys[i])])

Ratio(first, last, k) == Rat(last[k], first[k])

\* the comparison of the records with the fewest and the most participants
StatsScaling ==
    /\ pc = "stats_scaling"
    /\ LET first == MinByN(data)
           last == MaxByN(data)
           f == ScalingFault(first, last)
       IN
       IF f # "none"
       THEN /\ report' = report \o <<"scaling_header">>
            /\ fault' = f
            /\ pc' = PcAfterRaise
            /\ exitCode' = ExitAfterRaise
            /\ UNCHANGED printed
       ELSE /\ report' = report \o <<"scaling_header", "scaling_comparison">>
            /\ printed' = [printed EXCEPT !.scaling =
                  <<[n_ratio |-> Ratio(first, last, "participant_count"),
                     user_cycle_ratio |-> Ratio(first, last, "user_cycles"),
                     total_cycle_ratio |-> Ratio(first, last, "total_cycles"),
                     segment_ratio |-> Ratio(first, last, "session_segments"),
                     time_ratio |-> Ratio(first, last, "total_time_ms")]>>]
            /\ pc' = "stats_complexity"
            /\ UNCHANGED <<fault, exitCode>>
    /\ UNCHANGED <<Environment, data, results, todo, handles, filesRead, tableRows,
                   csvExists, csvHeader, csvRows, pngWritten>>

\* math.log(x) raises ValueError unless x > 0
LogFault(x) == IF RatPositive(x) THEN "none" ELSE "ValueError"

\* the three exponents log(ratio) / log(n_ratio), evaluated in order
ComplexityFault(r) ==
    FirstFault(<<LogFault(r.user_cycle_ratio), LogFault(r.total_cycle_ratio),
                 LogFault(r.time_ratio)>>)

\* variant: the guard written n_ratio >= 1
ComplexityGuard_AtLeastOne(r) == r.n_ratio[1] >= r.n_ratio[2]

\* the guard n_ratio > 1 of the complexity estimate
ComplexityGuard(r) == RatGreaterThanOne(r.n_ratio)

\* the estimated exponents, printed only when the participant count grew
StatsComplexity ==
    /\ pc = "stats_complexity"
    /\ LET r == printed.scaling[1] IN
       IF ComplexityGuard(r) /\ ComplexityFault(r) # "none"
       THEN /\ fault' = ComplexityFault(r)
            /\ pc' = PcAfterRaise
            /\ exitCode' = ExitAfterRaise
            /\ UNCHANGED report
       ELSE /\ report' = IF ComplexityGuard(r) THEN report \o <<"complexity">> ELSE report
            /\ pc' = "stats_efficiency"
            /\ UNCHANGED <<fault, exitCode>>
    /\ UNCHANGED <<Environment, data, results, todo, handles, filesRead, tableRows,
                   printed, csvExists, csvHeader, csvRows, pngWritten>>

\* the four averages, evaluated in order over the whole list
EfficiencyFault(d) ==
    FirstFault(<<EachDivFault(d, "user_cycles", "participant_count"),
                 EachDivFault(d, "total_cycles", "participant_count"),
                 EachDivFault(d, "total_time_ms", "participant_count"),
                 EachDivFault(d, "total_cycles", "user_cycles")>>)

UserCyclesPer(d) == Rat(d["user_cycles"], d["participant_count"])
TotalCyclesPer(d) == Rat(d["total_cycles"], d["participant_count"])
TimePer(d) == Rat(d["total_time_ms"], d["participant_count"])
\* (total_cycles - user_cycles) / user_cycles * 100, the division not guarded
OverheadUnguarded(d) ==
    RatMulInt(Rat(d["total_cycles"] - d["user_cycles"], d["user_cycles"]), 100)

\* the efficiency metrics; the function returns after them
StatsEfficiency ==
    /\ pc = "stats_efficiency"
    /\ LET f == EfficiencyFault(data) IN
       IF f # "none"
       THEN /\ report' = report \o <<"efficiency_header">>
            /\ fault' = f
            /\ pc' = PcAfterRaise
            /\ exitCode' = ExitAfterRaise
            /\ UNCHANGED printed
       ELSE /\ report' = report \o <<"efficiency_header", "efficiency_metrics">>
            /\ printed' = [printed EXCEPT !.efficiency =
                  <<[avg_user_cycles_per_participant |-> Mean([i \in 1..Len(data) |-> UserCyclesPer(data[i])]),
                     avg_total_cycles_per_participant |-> Mean([i \in 1..Len(data) |-> TotalCyclesPer(data[i])]),
                     avg_time_per_participant |-> Mean([i \in 1..Len(data) |-> TimePer(data[i])]),
                     avg_overhead |-> Mean([i \in 1..Len(data) |-> OverheadUnguarded(data[i])])]>>]
            /\ pc' = PcAfterReturn("csv")
            /\ UNCHANGED <<fault, exitCode>>
    /\ UNCHANGED <<Environment, data, results, todo, handles, filesRead, tableRows,
                   csvExists, csvHeader, csvRows, pngWritten>>

----------------------------------------------------------------------------
(* generate_csv_report *)

\* variant: the overhead taken relative to total_cycles
Overhead_OverTotal(item) ==
    IF item["user_cycles"] > 0
    THEN RatMulInt(Rat(item["total_cycles"] - item["user_cycles"], item["total_cycles"]), 100)
    ELSE Rat(0, 1)

\* the overhead column: the division is guarded by user_cycles > 0
Overhead(item) ==
    IF item["user_cycles"] > 0
    THEN RatMulInt(Rat(item["total_cycles"] - item["user_cycles"], item["user_cycles"]), 100)
    ELSE Rat(0, 1)

\* the fault of building one data row, its expressions evaluated in order
CsvRowFault(item) ==
    FirstFault(<<RowFault(item, <<"user_cycles", "total_cycles">>),
                 RowFault(item, TableKeys),
                 DivFault(item, "user_cycles", item, "participant_count"),
                 RowFault(item, <<"timestamp">>)>>)

CsvRow(item) ==
    [n |-> item["participant_count"],
     user_cycles |-> item["user_cycles"],
     total_cycles |-> item["total_cycles"],
     segments |-> item["session_segments"],
     proving_ms |-> item["proving_time_ms"],
     total_ms |-> item["total_time_ms"],
     receipt_bytes |-> item["receipt_size_bytes"],
     journal_bytes |-> item["journal_size_bytes"],
     user_cycles_per_participant |-> UserCyclesPer(item),
     total_cycles_per_participant |-> TotalCyclesPer(item),
     overhead |-> Overhead(item),
     time_per_participant |-> TimePer(item),
     timestamp |-> item["timestamp"]]

\* the rows written before the loop ends or a row cannot be built
RECURSIVE CsvLoop(_)
CsvLoop(s) ==
    IF s = <<>> \/ CsvRowFault(Head(s)) # "none" THEN <<>>
    ELSE <<CsvRow(Head(s))>> \o CsvLoop(Tail(s))

CsvFault(s) == FirstFault([i \in 1..Len(s) |-> CsvRowFault(s[i])])

\* the output file is opened for writing (created or truncated) and the header written
CsvOpen ==
    /\ pc = "csv"
    /\ handles' = handles \cup {CsvFile}
    /\ csvExists' = TRUE
    /\ csvHeader' = 1
    /\ csvRows' = <<>>
    /\ pc' = "csv_rows"
    /\ UNCHANGED <<Environment, data, results, todo, filesRead, report, tableRows,
                   printed, pngWritten, fault, exitCode>>

\* the data rows of the sorted list; the with block closes the file; the confirmation
CsvRows ==
    /\ pc = "csv_rows"
    /\ IF ~AllHave(data, "participant_count")
       THEN /\ handles' = WithExit(handles, CsvFile, TRUE)
            /\ fault' = "KeyError"
            /\ pc' = PcAfterRaise
            /\ exitCode' = ExitAfterRaise
            /\ UNCHANGED <<data, csvRows, report>>
       ELSE LET s == sorted(data)
                f == CsvFault(s.ret)
            IN
            /\ data' = s.arg
            /\ csvRows' = csvRows \o CsvLoop(s.ret)
            /\ handles' = WithExit(handles, CsvFile, f # "none")
            /\ IF f # "none"
               THEN /\ fault' = f
                    /\ pc' = PcAfterRaise
                    /\ exitCode' = ExitAfterRaise
                    /\ UNCHANGED report
               ELSE /\ report' = report \o <<"csv_saved">>
                    /\ pc' = PcAfterReturn("plot")
                    /\ UNCHANGED <<fault, exitCode>>
    /\ UNCHANGED <<Environment, results, todo, filesRead, tableRows, printed, csvExists,
                   csvHeader, pngWritten>>

----------------------------------------------------------------------------
(* generate_plot *)

PlotKeys ==
    <<"participant_count", "user_cycles", "total_cycles", "session_segments", "total_time_ms">>

\* the fault of building the five series from the sorted list
PlotFault(d) ==
    IF ~AllHave(d, "participant_count") THEN "KeyError"
    ELSE FirstFault([i \in 1..Len(PlotKeys) |->
             IF AllHave(d, PlotKeys[i]) THEN "none" ELSE "KeyError"])

\* variant: the import is not guarded, so a missing matplotlib is an uncaught ImportError
GeneratePlot_ImportFatal ==
    /\ pc = "plot"
    /\ IF ~matplotlib
       THEN /\ fault' = "ImportError"
            /\ pc' = PcAfterRaise
            /\ exitCode' = ExitAfterRaise
            /\ UNCHANGED <<data, pngWritten, report>>
       ELSE /\ data' = sorted(data).arg
            /\ pngWritten' = TRUE
            /\ report' = report \o <<"plots_saved">>
            /\ pc' = PcAfterReturn("main_done")
            /\ UNCHANGED <<fault, exitCode>>
    /\ UNCHANGED <<Environment, results, todo, handles, filesRead, tableRows, printed,
                   csvExists, csvHeader, csvRows>>

\* without matplotlib a note is printed and nothing else happens; with it the
\* four panels are drawn from the sorted list and the image is saved
GeneratePlot ==
    /\ pc = "plot"
    /\ IF ~matplotlib
       THEN /\ report' = report \o <<"matplotlib_note">>
            /\ pc' = PcAfterReturn("main_done")
            /\ UNCHANGED <<data, pngWritten, fault, exitCode>>
       ELSE IF PlotFault(data) # "none"
       THEN /\ fault' = PlotFault(data)
            /\ pc' = PcAfterRaise
            /\ exitCode' = ExitAfterRaise
            /\ UNCHANGED <<data, pngWritten, report>>
       ELSE /\ data' = sorted(data).arg
            /\ pngWritten' = TRUE
            /\ report' = report \o <<"plots_saved">>
            /\ pc' = PcAfterReturn("main_done")
            /\ UNCHANGED <<fault, exitCode>>
    /\ UNCHANGED <<Environment, results, todo, handles, filesRead, tableRows, printed,
                   csvExists, csvHeader, csvRows>>

----------------------------------------------------------------------------
(* main, the end *)

\* the closing banner; falling off the end of the script is exit status 0
MainComplete ==
    /\ pc = "main_done"
    /\ report' = report \o <<"analysis_complete">>
    /\ exitCode' = <<0>>
    /\ pc' = "exited"
    /\ UNCHANGED <<Environment, data, results, todo, handles, filesRead, tableRows,
                   printed, csvExists, csvHeader, csvRows, pngWritten, fault>>

----------------------------------------------------------------------------

Next ==
    \/ MainCheckDir
    \/ LoadBegin
    \/ LoadSummary
    \/ LoadNext
    \/ LoadFile
    \/ MainCheckData
    \/ StatsBegin
    \/ StatsTable
    \/ StatsScaling
    \/ StatsComplexity
    \/ StatsEfficiency
    \/ CsvOpen
    \/ CsvRows
    \/ GeneratePlot
    \/ MainComplete

Spec == Init /\ [][Next]_vars

----------------------------------------------------------------------------
(* Vocabulary of the properties *)

Said(tag) == \E i \in 1..Len(report) : report[i] = tag

InMain == entry = "main"

Terminal == pc \in {"exited", "returned", "raised"}

LoaderPcs == {"main", "load", "load_summary", "load_loop", "load_file"}

StatsPcs == {"stats", "stats_table", "stats_scaling", "stats_complexity", "stats_efficiency"}

StagePcs == StatsPcs \cup {"csv", "csv_rows", "plot", "main_done"}

AllKeys == {"participant_count", "user_cycles", "total_cycles", "session_segments",
            "proving_time_ms", "total_time_ms", "receipt_size_bytes",
            "journal_size_bytes", "timestamp"}

Complete(item) == AllKeys \subseteq DOMAIN item

WellFormed(d) == \A i \in 1..Len(d) : Complete(d[i])

\* the data model of a benchmark record
DataModel(d) ==
    \A i \in 1..Len(d) :
        /\ Complete(d[i])
        /\ d[i]["participant_count"] >= 1
        /\ d[i]["user_cycles"] >= 0
        /\ d[i]["total_cycles"] >= d[i]["user_cycles"]
        /\ d[i]["session_segments"] >= 0
        /\ d[i]["proving_time_ms"] >= 0
        /\ d[i]["total_time_ms"] >= d[i]["proving_time_ms"]
        /\ d[i]["receipt_size_bytes"] >= 0
        /\ d[i]["journal_size_bytes"] >= 0

Perms(n) == { q \in [1..n -> 1..n] : \A i, j \in 1..n : i # j => q[i] # q[j] }

NonDecreasing(rows) == \A i, j \in 1..Len(rows) : i < j => rows[i].n <= rows[j].n

\* the sections of the statistics report
ReportTags ==
    {"banner", "run_count", "participant_range", "table_header", "table_footer",
     "scaling_header", "scaling_comparison", "complexity", "efficiency_header",
     "efficiency_metrics"}

ReportDone == Said("efficiency_metrics")

CsvDone == Said("csv_saved")

PlotRan == Said("matplotlib_note") \/ Said("plots_saved")

\* the loader returned the empty sequence to main
NoDataFound == dirExists /\ fault = "none" /\ data = <<>>

----------------------------------------------------------------------------
(* C1: exit status of the driver *)

\* C1 as stated: the script ends with status 1 and a usage message when the
\* directory is missing or no data is found, and with status 0 in every other case.
C1_Original ==
    (InMain /\ pc = "exited") =>
        IF ~dirExists \/ NoDataFound
        THEN exitCode = <<1>> /\ Said("usage")
        ELSE exitCode = <<0>>

\* C1 amended: the script ends with status 1 exactly when the directory is missing,
\* no data is found, or a stage raised an uncaught exception, and with status 0 when
\* every stage completed; the usage line is printed for the missing directory only,
\* and "no data" prints its own error line.
C1_ExitCodes ==
    /\ (InMain /\ pc # "exited") => exitCode = <<>>
    /\ (InMain /\ pc = "exited") =>
          /\ exitCode \in {<<0>>, <<1>>}
          /\ exitCode = <<1>> <=> (~dirExists \/ NoDataFound \/ fault # "none")
          /\ Said("usage") <=> ~dirExists
          /\ Said("err_dir_not_found") <=> ~dirExists
          /\ NoDataFound => Said("err_no_data")
          /\ exitCode = <<0>> => Said("analysis_complete")

C1_Witness ==
    InMain /\ pc = "exited" /\ NoDataFound /\ exitCode = <<1>> /\ ~Said("usage")

----------------------------------------------------------------------------
(* C2: fatal conditions end the run *)

\* C2 as stated: after a fatal condition no later stage runs, and the aborted run has
\* produced no part of the console report and no partially written CSV file.
C2_Original ==
    (InMain /\ pc = "exited" /\ exitCode = <<1>>) =>
        /\ ~Said("analysis_complete")
        /\ \A t \in ReportTags : ~Said(t)
        /\ tableRows = <<>>
        /\ ~(csvExists /\ ~CsvDone)

\* C2 amended: once a fatal condition occurs the run ends at once with status 1 and no
\* later stage runs; what the run printed or wrote before the fault stays (a report
\* printed in whole or up to the faulting statement, a CSV file holding the header and
\* the rows written before the fault).  A run that ends with status 0 completed every
\* stage, the chart stage possibly by skipping for lack of matplotlib.
C2_AbortNoLaterStage ==
    InMain =>
        /\ fault # "none" => (pc = "exited" /\ exitCode = <<1>>)
        /\ exitCode = <<1>> => (pc = "exited" /\ ~Said("analysis_complete"))
        /\ (exitCode = <<1>> /\ fault = "none") =>
              ((\A t \in ReportTags : ~Said(t)) /\ ~csvExists /\ ~PlotRan)
        /\ (fault # "none" /\ ~Said("loaded")) =>
              ((\A t \in ReportTags : ~Said(t)) /\ tableRows = <<>> /\ ~csvExists /\ ~PlotRan)
        /\ (fault # "none" /\ ~ReportDone) => (~csvExists /\ ~CsvDone /\ ~PlotRan)
        /\ (fault # "none" /\ ~CsvDone) => (~PlotRan /\ ~pngWritten)
        /\ csvExists => ReportDone
        /\ PlotRan => CsvDone
        /\ exitCode = <<0>> =>
              (fault = "none" /\ ReportDone /\ CsvDone /\ PlotRan
               /\ Len(csvRows) = Len(data) /\ (pngWritten <=> matplotlib))

\* a fault in the CSV export after the report was printed, leaving a partial file
C2_Witness ==
    /\ InMain /\ pc = "exited" /\ fault = "KeyError"
    /\ ReportDone /\ csvExists /\ ~CsvDone
    /\ Len(csvRows) >= 1 /\ Len(csvRows) < Len(data)

----------------------------------------------------------------------------
(* C3: the loader's two branches *)

Present == { n \in PerRunNames : perRun[n][1] # "absent" }

LoaderReturned ==
    \/ entry = "load_benchmark_data" /\ pc = "returned"
    \/ InMain /\ pc = "main_check_data"

FilenameSorted(order) ==
    \A i, j \in DOMAIN order : i < j => LexLess(FullName(order[i]), FullName(order[j]))

\* C3: with a summary file the result is its list and no other file is read; without
\* one the result holds one record per matching file in filename order (empty when
\* there is none); a malformed file makes the load fail and nothing is returned.
C3_LoadStrategy ==
    /\ LoaderReturned =>
          IF summary[1] # "absent"
          THEN summary[1] = "ok" /\ data = summary[2] /\ filesRead = <<SummaryFile>>
          ELSE /\ \A n \in Present : perRun[n][1] = "ok"
               /\ \E order \in [1..Cardinality(Present) -> Present] :
                     /\ { order[i] : i \in DOMAIN order } = Present
                     /\ FilenameSorted(order)
                     /\ data = [i \in DOMAIN order |-> perRun[order[i]][2]]
                     /\ filesRead = [i \in DOMAIN order |-> RunFile(order[i])]
               /\ Present = PerRunNames =>
                     data = <<perRun[<<49>>][2], perRun[<<49, 48>>][2], perRun[<<50>>][2]>>
    /\ (entry \in {"main", "load_benchmark_data"} /\ dirExists /\ pc \notin LoaderPcs
        /\ \/ summary[1] = "malformed"
           \/ summary[1] = "absent" /\ \E n \in Present : perRun[n][1] = "malformed") =>
          (fault = "JSONDecodeError" /\ data = <<>> /\ Terminal)

C3_Witness ==
    /\ LoaderReturned /\ summary[1] = "absent" /\ Present = PerRunNames
    /\ Len(data) = 3
    /\ data[1]["participant_count"] > data[2]["participant_count"]

----------------------------------------------------------------------------
(* C4: the overhead percentage and its guard *)

\* C4: the CSV export of well-formed records completes, a row with user_cycles = 0
\* carrying overhead 0 and any other row (total - user) / user * 100 (2.4 for
\* (1000, 1024); 72.46 to two decimals for (9500, 16384)); print_statistics fails on
\* every list holding a record with user_cycles = 0.
C4_Overhead ==
    /\ (entry = "generate_csv_report" /\ Terminal /\ WellFormed(data)) =>
          (pc = "returned" /\ fault = "none" /\ CsvDone /\ Len(csvRows) = Len(data))
    /\ \A i \in 1..Len(csvRows) :
          LET r == csvRows[i] IN
          /\ IF r.user_cycles = 0
             THEN r.overhead = <<0, 1>>
             ELSE RatEq(r.overhead, <<(r.total_cycles - r.user_cycles) * 100, r.user_cycles>>)
          /\ (r.user_cycles = 1000 /\ r.total_cycles = 1024) => r.overhead = <<12, 5>>
          /\ (r.user_cycles = 9500 /\ r.total_cycles = 16384) => Round2(r.overhead) = 7246
    /\ (entry \in {"print_statistics", "main"} /\ pc \notin (LoaderPcs \cup StatsPcs)
        /\ (InMain => Said("loaded"))
        /\ \E i \in 1..Len(data) : Has(data[i], "user_cycles") /\ data[i]["user_cycles"] = 0) =>
          (fault # "none" /\ ~ReportDone /\ pc \in {"raised", "exited"})

C4_Witness ==
    /\ entry = "generate_csv_report" /\ pc = "returned" /\ Len(csvRows) = 2
    /\ csvRows[1].user_cycles = 0 /\ csvRows[1].overhead = <<0, 1>>
    /\ csvRows[2].user_cycles = 9500

----------------------------------------------------------------------------
(* C5: one row per record, in order of participant_count *)

\* C5: the printed table and the CSV file each hold exactly one row per input record, in
\* non-decreasing order of participant_count, records with equal counts kept apart.
C5_OneRowPerRecord ==
    /\ Said("table_footer") =>
          /\ Len(tableRows) = Len(data)
          /\ NonDecreasing(tableRows)
          /\ \E q \in Perms(Len(data)) :
                \A i \in 1..Len(data) : tableRows[i] = TableRow(data[q[i]])
    /\ CsvDone =>
          /\ csvHeader = 1
          /\ Len(csvRows) = Len(data)
          /\ NonDecreasing(csvRows)
          /\ \E q \in Perms(Len(data)) :
                \A i \in 1..Len(data) : csvRows[i] = CsvRow(data[q[i]])
    /\ (entry = "print_statistics" /\ Terminal /\ data # <<>> /\ WellFormed(data)) =>
          Said("table_footer")
    /\ (entry = "generate_csv_report" /\ Terminal /\ WellFormed(data)) => CsvDone

\* three records out of order, two of them with the same participant_count
C5_Witness ==
    /\ CsvDone /\ Said("table_footer") /\ Len(data) = 3 /\ Len(csvRows) = 3
    /\ data[1]["participant_count"] > data[2]["participant_count"]
    /\ data[2]["participant_count"] = data[3]["participant_count"]
    /\ data[2] # data[3]

----------------------------------------------------------------------------
(* C6: the complexity estimate and the participant-count ratio *)

Counts(d) == { d[i]["participant_count"] : i \in 1..Len(d) }

MinCount(d) == CHOOSE m \in Counts(d) : \A k \in Counts(d) : m <= k

MaxCount(d) == CHOOSE m \in Counts(d) : \A k \in Counts(d) : m >= k

\* print_statistics ran on a non-empty list and ended, by return or by exception
StatsEnded ==
    /\ data # <<>>
    /\ \/ entry = "print_statistics" /\ Terminal
       \/ InMain /\ Said("loaded") /\ pc \notin StatsPcs

\* C6 as stated: the complexity estimate is left out when the largest and the smallest
\* participant_count are equal, and printed whenever their ratio is greater than 1.
C6_Original ==
    StatsEnded =>
        /\ MaxCount(data) = MinCount(data) => ~Said("complexity")
        /\ MaxCount(data) > MinCount(data) => Said("complexity")

\* the report gets as far as the complexity estimate: every row of the table can be
\* printed, no ratio divides by zero and no logarithm is taken of zero
ReachesComplexity(d) ==
    LET first == MinByN(d)
        last == MaxByN(d)
    IN  /\ \A i \in 1..Len(d) : \A j \in 1..Len(TableKeys) : Has(d[i], TableKeys[j])
        /\ first["user_cycles"] # 0 /\ first["total_cycles"] # 0
        /\ first["session_segments"] # 0 /\ first["total_time_ms"] # 0
        /\ last["user_cycles"] # 0 /\ last["total_cycles"] # 0 /\ last["total_time_ms"] # 0

\* C6 amended: the complexity estimate is left out when the largest and the smallest
\* participant_count are equal (the scaling comparison is printed all the same), and
\* with a ratio greater than 1 it is printed exactly when the report gets that far:
\* when no record lacks a table field, the record with the fewest participants has
\* non-zero user_cycles, total_cycles, session_segments and total_time_ms, and the one
\* with the most has non-zero user_cycles, total_cycles and total_time_ms.
C6_ComplexitySection ==
    StatsEnded =>
        /\ Said("complexity") <=>
              (MaxCount(data) > MinCount(data) /\ ReachesComplexity(data))
        /\ (MaxCount(data) = MinCount(data) /\ ReachesComplexity(data)) =>
              (Said("scaling_comparison") /\ printed.scaling[1].n_ratio = <<1, 1>>)
        /\ Said("complexity") => Said("scaling_comparison")

\* equal counts: the comparison is printed, the estimate is not, the report completes
C6_Witness ==
    /\ StatsEnded /\ Len(data) = 2 /\ MaxCount(data) = MinCount(data)
    /\ Said("scaling_comparison") /\ ~Said("complexity") /\ ReportDone

----------------------------------------------------------------------------
(* C7: the run without matplotlib *)

\* C7: without matplotlib generate_plot prints a note, saves no image and returns; the
\* script has by then printed the report and written the CSV file, and ends with
\* status 0.
C7_PlotSkipped ==
    /\ (entry \in {"main", "generate_plot"} /\ ~matplotlib) => ~pngWritten
    /\ (entry = "generate_plot" /\ ~matplotlib /\ Terminal) =>
          (pc = "returned" /\ fault = "none" /\ Said("matplotlib_note"))
    /\ (InMain /\ ~matplotlib /\ CsvDone /\ pc # "plot") =>
          /\ Said("matplotlib_note") /\ ~Said("plots_saved")
          /\ fault = "none"
          /\ ReportDone
          /\ csvExists /\ csvHeader = 1 /\ Len(csvRows) = Len(data) /\ handles = {}
          /\ pc \in {"main_done", "exited"}
          /\ pc = "main_done" => ENABLED MainComplete
          /\ pc = "exited" => (exitCode = <<0>> /\ Said("analysis_complete"))

C7_Witness ==
    /\ InMain /\ ~matplotlib /\ pc = "exited" /\ exitCode = <<0>>
    /\ Said("matplotlib_note") /\ ~pngWritten /\ Len(csvRows) >= 2

----------------------------------------------------------------------------
(* C8: the loaded list is never changed *)

\* C8: no step of the reporter, the CSV exporter, the chart renderer or the end of main,
\* completed or ended by an exception, changes the loaded list: its records, their
\* values and their order stay as the loader returned them.
C8_DataImmutable == [][(pc \in StagePcs) => (data' = data)]_vars

\* a list out of order went through the sorting of all three stages
C8_Witness ==
    /\ InMain /\ pc = "exited" /\ exitCode = <<0>> /\ pngWritten
    /\ Len(data) >= 2
    /\ data[1]["participant_count"] > data[2]["participant_count"]
    /\ tableRows[1].n < tableRows[2].n

----------------------------------------------------------------------------
(* C9: file handles are closed when the operation that opened them ends *)

\* C9: a file is open only inside the with block that opened it; no file is open when a
\* stage starts, when a function has returned or raised, or when the process has ended.
C9_HandlesScoped ==
    /\ pc = "load_summary" => handles = {SummaryFile}
    /\ pc = "load_file" => handles = {RunFile(Head(todo))}
    /\ pc = "csv_rows" => handles = {CsvFile}
    /\ pc \notin {"load_summary", "load_file", "csv_rows"} => handles = {}

\* an exception in the middle of writing the CSV rows, and the file closed
C9_Witness ==
    /\ fault = "KeyError" /\ csvExists /\ ~CsvDone /\ Len(csvRows) >= 1
    /\ Terminal /\ handles = {}

----------------------------------------------------------------------------
(* C10: inputs on which print_statistics raises *)

\* C10: on every non-empty list of records that satisfy the data model and have
\* user_cycles > 0, print_statistics runs to its end without an exception.
C10_OnlyUserCyclesFaults ==
    (entry = "print_statistics" /\ Terminal /\ data # <<>> /\ DataModel(data)
     /\ \A i \in 1..Len(data) : data[i]["user_cycles"] > 0) =>
        (pc = "returned" /\ fault = "none" /\ ReportDone)

====
